---- MODULE Spec2Model ----
(***************************************************************************)
(* Client-side authentication state of the impulse web application:        *)
(* the useAuth hook (src/src/hooks/useAuth.tsx) with its dual-backend      *)
(* login / signup / logout, the two localStorage keys it persists, and     *)
(* the callers that await its results.                                     *)
(* AuthPage's form handlers and the route guard (useRequireAuth) form the   *)
(* application around the hook; fetchMeetups of the meetup service         *)
(* (src/src/services/flaskService.ts) has a specification of its own.      *)
(*                                                                         *)
(* JavaScript strings are sequences of one-character strings, so that      *)
(* toLowerCase, endsWith, includes and template formatting are computed.   *)
(* null and undefined are the one-element sequences Null and Undefined,    *)
(* whose element is not a character.                                       *)
(***************************************************************************)
EXTENDS Integers, Sequences, FiniteSets, TLC

(*-------------------------- bounds of the model --------------------------*)

\* number of invocations of login / signup / logout in one run
MaxCalls == 2
\* number of invocations that may be in flight together
NumSlots == 2
\* longest list of meetups or event rows a backend answers with
MaxRows == 2
\* number of invocations of fetchMeetups in one run
MaxFetches == 2
Slots == 1..NumSlots

\* The mounted components that called useAuth(); each owns its useState cells.
\* "page" stands for a page component (AuthPage, Meetups, ...), which may invoke the
\* operations the hook returns; "guard" is the useAuth() call inside useRequireAuth,
\* which reads isLoggedIn and isLoading only.
Callers == {"page"}
Instances == Callers \cup {"guard"}

(*------------------------------ JS values --------------------------------*)

Null == <<"#null">>
Undefined == <<"#undefined">>
NullUser == [tag |-> "null"]
NoData == [tag |-> "undefined"]

\* "@utdallas.edu"
S_suffix == <<"@","u","t","d","a","l","l","a","s",".","e","d","u">>
\* "404"
S_404 == <<"4","0","4">>
\* "Failed to fetch"
S_FailedToFetch == <<"F","a","i","l","e","d"," ","t","o"," ","f","e","t","c","h">>
\* "Load failed"
S_LoadFailed == <<"L","o","a","d"," ","f","a","i","l","e","d">>
\* "NetworkError when attempting to fetch resource."
S_NetworkError ==
    <<"N","e","t","w","o","r","k","E","r","r","o","r"," ","w","h","e",
      "n"," ","a","t","t","e","m","p","t","i","n","g"," ","t","o"," ",
      "f","e","t","c","h"," ","r","e","s","o","u","r","c","e",".">>
\* "Login failed"
S_LoginFailed == <<"L","o","g","i","n"," ","f","a","i","l","e","d">>
\* "Signup failed"
S_SignupFailed == <<"S","i","g","n","u","p"," ","f","a","i","l","e","d">>
\* "Signup failed with Supabase"
S_SignupFailedSupabase ==
    <<"S","i","g","n","u","p"," ","f","a","i","l","e","d"," ","w","i",
      "t","h"," ","S","u","p","a","b","a","s","e">>
\* "Unexpected response from server"
S_Unexpected ==
    <<"U","n","e","x","p","e","c","t","e","d"," ","r","e","s","p","o",
      "n","s","e"," ","f","r","o","m"," ","s","e","r","v","e","r">>
\* "Invalid response from Supabase"
S_InvalidSupabase ==
    <<"I","n","v","a","l","i","d"," ","r","e","s","p","o","n","s","e",
      " ","f","r","o","m"," ","S","u","p","a","b","a","s","e">>
\* "Only @utdallas.edu email addresses are allowed"
S_OnlyUTD ==
    <<"O","n","l","y"," ","@","u","t","d","a","l","l","a","s",".","e",
      "d","u"," ","e","m","a","i","l"," ","a","d","d","r","e","s","s",
      "e","s"," ","a","r","e"," ","a","l","l","o","w","e","d">>
\* "Unexpected token < in JSON at position 0"
S_SyntaxError ==
    <<"U","n","e","x","p","e","c","t","e","d"," ","t","o","k","e","n",
      " ","<"," ","i","n"," ","J","S","O","N"," ","a","t"," ","p","o",
      "s","i","t","i","o","n"," ","0">>
\* "undefined"
S_undefined == <<"u","n","d","e","f","i","n","e","d">>
\* "Invalid credentials"
S_InvalidCredentials ==
    <<"I","n","v","a","l","i","d"," ","c","r","e","d","e","n","t","i",
      "a","l","s">>
\* "404 Not Found: no such URL"
S_NoRoute404 ==
    <<"4","0","4"," ","N","o","t"," ","F","o","u","n","d",":"," ","n",
      "o"," ","s","u","c","h"," ","U","R","L">>
\* "Not Found"
S_NotFound == <<"N","o","t"," ","F","o","u","n","d">>
\* "Unauthorized"
S_Unauthorized == <<"U","n","a","u","t","h","o","r","i","z","e","d">>
\* "Internal Server Error"
S_ServerError ==
    <<"I","n","t","e","r","n","a","l"," ","S","e","r","v","e","r"," ",
      "E","r","r","o","r">>
\* "OK"
S_OK == <<"O","K">>
\* ": "
S_ColonSpace == <<":"," ">>
\* "Invalid login credentials"
S_InvalidLogin ==
    <<"I","n","v","a","l","i","d"," ","l","o","g","i","n"," ","c","r",
      "e","d","e","n","t","i","a","l","s">>
\* "User already registered"
S_AlreadyRegistered ==
    <<"U","s","e","r"," ","a","l","r","e","a","d","y"," ","r","e","g",
      "i","s","t","e","r","e","d">>
\* "s@utdallas.edu"
EmailLower == <<"s","@","u","t","d","a","l","l","a","s",".","e","d","u">>
\* "S@UTDallas.edu"
EmailMixed == <<"S","@","U","T","D","a","l","l","a","s",".","e","d","u">>
\* "s@utdallas.edu.co"
EmailTrail == <<"s","@","u","t","d","a","l","l","a","s",".","e","d","u",".","c","o">>
\* "abc"
TokA == <<"a","b","c">>
\* "xyz"
TokB == <<"x","y","z">>
\* "u1"
UserId == <<"u","1">>
\* "2024-01-01"
ConfirmedAt == <<"2","0","2","4","-","0","1","-","0","1">>
\* "pw"
Pw == <<"p","w">>
\* "pq"
PwTypo == <<"p","q">>

UpperAlphabet ==
    <<"A","B","C","D","E","F","G","H","I","J","K","L","M",
      "N","O","P","Q","R","S","T","U","V","W","X","Y","Z">>
LowerAlphabet ==
    <<"a","b","c","d","e","f","g","h","i","j","k","l","m",
      "n","o","p","q","r","s","t","u","v","w","x","y","z">>

\* String.prototype.toLowerCase
UpperToLower ==
    [c \in {UpperAlphabet[i] : i \in 1..Len(UpperAlphabet)} |->
        LowerAlphabet[CHOOSE i \in 1..Len(UpperAlphabet) : UpperAlphabet[i] = c]]
ToLowerChar(c) == IF c \in DOMAIN UpperToLower THEN UpperToLower[c] ELSE c
ToLowerCase(s) == [i \in 1..Len(s) |-> ToLowerChar(s[i])]

\* String.prototype.endsWith
EndsWith(s, suf) ==
    /\ Len(s) >= Len(suf)
    /\ SubSeq(s, Len(s) - Len(suf) + 1, Len(s)) = suf

\* String.prototype.includes
Includes(s, sub) ==
    \E i \in 1..(Len(s) - Len(sub) + 1) : \A j \in 1..Len(sub) : s[i + j - 1] = sub[j]

\* decimal digits of a natural number, as a template literal prints it
Digit(d) == <<"0","1","2","3","4","5","6","7","8","9">>[d + 1]
RECURSIVE NumberToString(_)
NumberToString(n) ==
    IF n < 10 THEN <<Digit(n)>> ELSE NumberToString(n \div 10) \o <<Digit(n % 10)>>

\* JS truthiness of a string | null | undefined
Truthy(v) == v # Null /\ v # Undefined /\ v # <<>>
\* a || b
OrElse(a, b) == IF Truthy(a) THEN a ELSE b
\* the string localStorage.setItem(key, v) stores
ToStorageString(v) == IF v = Undefined THEN S_undefined ELSE v

(*------------------------------- inputs ----------------------------------*)

Emails == {EmailLower, EmailMixed, EmailTrail}
Passwords == {Pw}
\* what the user types in the confirmation field of the sign-up form
Confirmations == {Pw, PwTypo}
Tokens == {TokA, TokB}

\* what fetch(`${AUTH_BASE_URL}/auth/...`) can settle with: a rejection (TypeError)
\* or a Response with a status, a status text and a body
FetchRejections == {S_FailedToFetch, S_LoadFailed, S_NetworkError}
\* body: parses = FALSE when response.json() rejects; otherwise the fields of the object
Body(parses, error, access_token, email) ==
    [parses |-> parses, error |-> error, access_token |-> access_token, email |-> email]
UnparsableBody == Body(FALSE, Undefined, Undefined, Undefined)
ErrorBody(error) == Body(TRUE, error, Undefined, Undefined)
\* a login body with both fields (the email as the server normalises it), or with neither
LoginBodies(email) ==
    {Body(TRUE, Undefined, t, ToLowerCase(email)) : t \in Tokens}
    \cup {Body(TRUE, Undefined, Undefined, Undefined)}
Response(status, statusText, body) ==
    [kind |-> "response", status |-> status, statusText |-> statusText, body |-> body,
     message |-> Undefined]
Rejection(message) ==
    [kind |-> "reject", status |-> 0, statusText |-> <<>>, body |-> UnparsableBody,
     message |-> message]
\* responses that are not ok: JSON bodies with or without an error text, and bodies
\* that are not JSON (an HTML error page), with and without a status text (HTTP/2 has none)
ErrorResponses ==
    {Response(401, S_Unauthorized, ErrorBody(S_InvalidCredentials)),
     Response(401, S_Unauthorized, ErrorBody(Undefined)),
     Response(404, S_NotFound, ErrorBody(S_InvalidCredentials)),
     Response(404, S_NotFound, ErrorBody(S_NoRoute404)),
     Response(404, S_NotFound, UnparsableBody),
     Response(404, <<>>, UnparsableBody),
     Response(500, S_ServerError, UnparsableBody)}
PrimaryOutcomes(email) ==
    {Rejection(m) : m \in FetchRejections}
    \cup ErrorResponses
    \cup {Response(200, S_OK, b) : b \in LoginBodies(email) \cup {UnparsableBody}}

\* what supabase.auth.signInWithPassword / signUp can settle with:
\* a rejection, or { data: { user, session }, error }
SupabaseUser(email) ==
    [tag |-> "user", email |-> email, id |-> UserId, email_confirmed_at |-> ConfirmedAt]
\* the user signUp returns while the confirmation email is pending
NewUser(email) == [SupabaseUser(email) EXCEPT !.email_confirmed_at = Undefined]
SupabaseSession(token) == [tag |-> "session", access_token |-> token]
NullSession == [tag |-> "null"]
SupabaseResult(user, session, error) ==
    [kind |-> "resolve", user |-> user, session |-> session, error |-> error]
SupabaseRejection(message) ==
    [kind |-> "reject", user |-> NullUser, session |-> NullSession, error |-> message]
SecondaryLoginOutcomes(email) ==
    {SupabaseRejection(S_FailedToFetch)}
    \cup {SupabaseResult(NullUser, NullSession, m) : m \in {S_InvalidLogin, <<>>}}
    \cup {SupabaseResult(NullUser, NullSession, Null)}
    \cup {SupabaseResult(SupabaseUser(ToLowerCase(email)), SupabaseSession(t), Null) : t \in Tokens}
    \cup {SupabaseResult(SupabaseUser(Undefined), SupabaseSession(TokA), Null)}
SecondarySignupOutcomes(email) ==
    {SupabaseRejection(S_FailedToFetch)}
    \cup {SupabaseResult(NullUser, NullSession, m) : m \in {S_AlreadyRegistered, <<>>}}
    \cup {SupabaseResult(NewUser(ToLowerCase(email)), NullSession, Null),
          SupabaseResult(SupabaseUser(ToLowerCase(email)), SupabaseSession(TokA), Null)}

(*------------------------------- state -----------------------------------*)

VARIABLES
    USE_SUPABASE_DIRECTLY,  \* the build-time switch of useAuth.tsx
    localStorage,           \* the two keys of window.localStorage the hook uses
    hook,                   \* hook[i]: the useState cells of the i-th useAuth() instance
    calls,                  \* calls[s]: an invocation of login / signup / logout in flight
    returned,               \* the invocation whose promise resolved in the last step, if any
    ncalls,                 \* number of invocations so far
    location,               \* the router's location: pathname and state.from
    form,                   \* the error texts AuthPage keeps in its useState cells
    meetupsCall             \* the invocation of fetchMeetups in progress or completed

vars == <<USE_SUPABASE_DIRECTLY, localStorage, hook, calls, returned, ncalls, location, form,
          meetupsCall>>

\* the texts AuthPage shows
\* "Please use your UTD email (@utdallas.edu)"
M_UseUTDEmail ==
    <<"P","l","e","a","s","e"," ","u","s","e"," ","y","o","u","r"," ","U","T","D"," ",
      "e","m","a","i","l"," ","(","@","u","t","d","a","l","l","a","s",".","e","d","u",
      ")">>
\* "Passwords don't match"
M_PasswordsDontMatch ==
    <<"P","a","s","s","w","o","r","d","s"," ","d","o","n","'","t"," ","m","a","t","c",
      "h">>
\* "An error occurred during login"
M_LoginError ==
    <<"A","n"," ","e","r","r","o","r"," ","o","c","c","u","r","r","e","d"," ","d","u",
      "r","i","n","g"," ","l","o","g","i","n">>
\* "An error occurred during signup"
M_SignupError ==
    <<"A","n"," ","e","r","r","o","r"," ","o","c","c","u","r","r","e","d"," ","d","u",
      "r","i","n","g"," ","s","i","g","n","u","p">>
\* AuthPage's errorMessage, loginEmailError and signupEmailError
InitialForm == [errorMessage |-> <<>>, loginEmailError |-> <<>>, signupEmailError |-> <<>>]
\* AuthPage.clearError
clearError(f) == InitialForm

\* no response of a backend, and a list of items (an array) as a backend gives it
NoResponse == [kind |-> "none", data |-> [tag |-> "null"], error |-> Undefined]
NullList == [tag |-> "null"]
List(items) == [tag |-> "array", items |-> items]
\* fetchMeetups before its first invocation
IdleFetch ==
    [pc |-> "idle", invocation |-> 0, primary |-> NoResponse, secondary |-> NoResponse,
     primaryQueries |-> 0, secondaryQueries |-> 0, thrown |-> FALSE, result |-> NullList]

\* the useState initial values; effectRan tells whether the mount effect has run
InitialHook ==
    [isLoggedIn |-> FALSE, isEmailVerified |-> FALSE, verifiedEmail |-> <<>>,
     isLoading |-> TRUE, user |-> NullUser, accessToken |-> Null, effectRan |-> FALSE]

EmptyStorage == [impulse_access_token |-> Null, impulse_user_email |-> Null]
StoredSession(token, email) ==
    [impulse_access_token |-> ToStorageString(token), impulse_user_email |-> ToStorageString(email)]

\* the objects login and signup return: { success: true, data } or { success: false, error };
\* keys lists the keys the object has, error is the message of the Error
\* a promise that rejects: the exception reaches the caller
Uncaught(message) ==
    [keys |-> {"thrown"}, success |-> FALSE, error |-> message, data |-> NoData]
Success(data) ==
    [keys |-> {"success", "data"}, success |-> TRUE, error |-> Undefined, data |-> data]
\* a variant of Failure in which the catch block throws the error again
Failure_rethrow(message) == Uncaught(message)

Failure(message) ==
    [keys |-> {"success", "error"}, success |-> FALSE, error |-> message, data |-> NoData]
\* logout resolves with undefined
Void == [keys |-> {}, success |-> FALSE, error |-> Undefined, data |-> NoData]

\* primary / secondary record how far the invocation got with each backend,
\* status the response.status of the Flask response (0: no response),
\* primaryRequests / secondaryRequests the requests it has sent to each backend
IdleCall ==
    [pc |-> "idle", op |-> "none", inst |-> "none", email |-> <<>>,
     primary |-> "none", status |-> 0, secondary |-> "none",
     primaryRequests |-> 0, secondaryRequests |-> 0]

NoReturn == [op |-> "none"]

\* the routes of App: the public login page and pages wrapped in ProtectedRoute
AuthPath == "/auth"
ProtectedPaths == {"/events", "/profile"}
\* location.state is null
NoFrom == "#null"
Location(pathname, from) == [pathname |-> pathname, from |-> from]
\* the promise of `call` resolves with `result`
ReturnEvent(call, result) ==
    [op |-> call.op, inst |-> call.inst, email |-> call.email, primary |-> call.primary,
     status |-> call.status, secondary |-> call.secondary,
     primaryRequests |-> call.primaryRequests, secondaryRequests |-> call.secondaryRequests,
     result |-> result]

\* a variant of isValidUTDEmail that looks for the suffix anywhere in the address
isValidUTDEmail_includes(email) == Includes(ToLowerCase(email), S_suffix)

\* const isValidUTDEmail
isValidUTDEmail(email) == EndsWith(ToLowerCase(email), S_suffix)

(*--------------------------- pure parts of login --------------------------*)

Throw(message) == [thrown |-> TRUE, message |-> message, data |-> NoData]
Return(data) == [thrown |-> FALSE, message |-> Undefined, data |-> data]

ResponseOk(status) == status >= 200 /\ status <= 299

\* a variant of FlaskErrorMessage whose fallback text leaves out response.status
FlaskErrorMessage_noStatus(outcome, default) ==
    IF outcome.body.parses
    THEN OrElse(outcome.body.error, default)
    ELSE OrElse(outcome.statusText, default)

\* the message of the Error thrown for a response that is not ok
FlaskErrorMessage(outcome, default) ==
    IF outcome.body.parses
    THEN OrElse(outcome.body.error, default)
    ELSE NumberToString(outcome.status) \o S_ColonSpace \o OrElse(outcome.statusText, default)

FlaskLoginData(body) == [tag |-> "flask", access_token |-> body.access_token, email |-> body.email]

\* the inner try block of login up to the parsed response
PrimaryLoginResult(outcome) ==
    IF outcome.kind = "reject" THEN Throw(outcome.message)
    ELSE IF ~ResponseOk(outcome.status) THEN Throw(FlaskErrorMessage(outcome, S_LoginFailed))
    ELSE IF ~outcome.body.parses THEN Throw(S_Unexpected)
    ELSE Return(FlaskLoginData(outcome.body))

\* the inner try block of signup
PrimarySignupResult(outcome) ==
    IF outcome.kind = "reject" THEN Throw(outcome.message)
    ELSE IF ~ResponseOk(outcome.status) THEN Throw(FlaskErrorMessage(outcome, S_SignupFailed))
    ELSE IF ~outcome.body.parses THEN Throw(S_SyntaxError)
    ELSE Return([tag |-> "flask", access_token |-> outcome.body.access_token, email |-> outcome.body.email])

\* a variant of FallbackEligible that does not look for "Failed to fetch"
FallbackEligible_noFetch(message) ==
    \/ Includes(message, S_404)
    \/ Includes(message, S_LoadFailed)

\* a variant of FallbackEligible that swallows every error of the Flask attempt
FallbackEligible_always(message) == TRUE

\* the test of the inner catch block: fall back to Supabase or rethrow
FallbackEligible(message) ==
    \/ Includes(message, S_404)
    \/ Includes(message, S_FailedToFetch)
    \/ Includes(message, S_LoadFailed)

SupabaseData(outcome) == [tag |-> "supabase", user |-> outcome.user, session |-> outcome.session]

\* the second try block of login
SecondaryLoginResult(outcome) ==
    IF outcome.kind = "reject" THEN Throw(OrElse(outcome.error, S_LoginFailed))
    ELSE IF outcome.error # Null THEN Throw(OrElse(outcome.error, S_LoginFailed))
    ELSE IF outcome.user # NullUser /\ outcome.session # NullSession
         THEN Return(SupabaseData(outcome))
         ELSE Throw(OrElse(S_InvalidSupabase, S_LoginFailed))

\* the second try block of signup
SecondarySignupResult(outcome) ==
    IF outcome.kind = "reject" THEN Throw(OrElse(outcome.error, S_SignupFailedSupabase))
    ELSE IF outcome.error # Null THEN Throw(OrElse(outcome.error, S_SignupFailedSupabase))
    ELSE Return(SupabaseData(outcome))

(*------------------------ writes to the hook state ------------------------*)

\* a variant of RestoredHook that tests the token only
RestoredHook_tokenOnly(h, storage) ==
    LET token == storage.impulse_access_token
        email == storage.impulse_user_email
        h1 == IF Truthy(token)
              THEN [h EXCEPT !.isLoggedIn = TRUE, !.accessToken = token,
                             !.verifiedEmail = email,
                             !.user = [tag |-> "user", email |-> email],
                             !.isEmailVerified = TRUE]
              ELSE h
    IN [h1 EXCEPT !.isLoading = FALSE, !.effectRan = TRUE]

\* a variant of RestoredHook that ends the loading without reading the storage
RestoredHook_noRead(h, storage) == [h EXCEPT !.isLoading = FALSE, !.effectRan = TRUE]

\* the mount effect
RestoredHook(h, storage) ==
    LET token == storage.impulse_access_token
        email == storage.impulse_user_email
        h1 == IF Truthy(token) /\ Truthy(email)
              THEN [h EXCEPT !.isLoggedIn = TRUE, !.accessToken = token,
                             !.verifiedEmail = email,
                             !.user = [tag |-> "user", email |-> email],
                             !.isEmailVerified = TRUE]
              ELSE h
    IN [h1 EXCEPT !.isLoading = FALSE, !.effectRan = TRUE]

\* a variant of PrimarySuccessHook without setAccessToken
PrimarySuccessHook_noToken(h, data) ==
    [h EXCEPT !.isLoggedIn = TRUE, !.verifiedEmail = data.email,
              !.isEmailVerified = TRUE,
              !.user = [tag |-> "user", email |-> data.email]]

\* the setters after a successful Flask login
PrimarySuccessHook(h, data) ==
    [h EXCEPT !.isLoggedIn = TRUE, !.verifiedEmail = data.email,
              !.isEmailVerified = TRUE,
              !.user = [tag |-> "user", email |-> data.email],
              !.accessToken = data.access_token]
PrimarySuccessStorage(data) == StoredSession(data.access_token, data.email)

\* a variant of SecondarySuccessHook without setIsEmailVerified(true)
SecondarySuccessHook_unverified(h, data) ==
    [h EXCEPT !.isLoggedIn = TRUE, !.verifiedEmail = OrElse(data.user.email, <<>>),
              !.user = data.user,
              !.accessToken = data.session.access_token]

\* the setters after a successful Supabase login
SecondarySuccessHook(h, data) ==
    [h EXCEPT !.isLoggedIn = TRUE, !.verifiedEmail = OrElse(data.user.email, <<>>),
              !.isEmailVerified = TRUE,
              !.user = data.user,
              !.accessToken = data.session.access_token]
SecondarySuccessStorage(data) ==
    StoredSession(data.session.access_token, OrElse(data.user.email, <<>>))

\* a variant of LoginCatchHook without setIsLoggedIn(false)
LoginCatchHook_keepLoggedIn(h) ==
    [h EXCEPT !.verifiedEmail = <<>>, !.user = NullUser, !.accessToken = Null]

\* the outer catch block of login
LoginCatchHook(h) ==
    [h EXCEPT !.isLoggedIn = FALSE, !.verifiedEmail = <<>>, !.user = NullUser,
              !.accessToken = Null]

\* a variant of FinallyHook that also resets isEmailVerified
FinallyHook_resetVerified(h) == [h EXCEPT !.isLoading = FALSE, !.isEmailVerified = FALSE]

\* a variant of FinallyHook without setIsLoading(false)
FinallyHook_noop(h) == h

\* the finally blocks of login and signup
FinallyHook(h) == [h EXCEPT !.isLoading = FALSE]

\* a variant of LogoutHook without setIsEmailVerified(false)
LogoutHook_keepVerified(h) ==
    [h EXCEPT !.isLoggedIn = FALSE, !.verifiedEmail = <<>>,
              !.user = NullUser, !.accessToken = Null]

\* a variant of LogoutHook that flips isLoggedIn instead of clearing it
LogoutHook_toggle(h) ==
    [h EXCEPT !.isLoggedIn = ~h.isLoggedIn, !.isEmailVerified = FALSE, !.verifiedEmail = <<>>,
              !.user = NullUser, !.accessToken = Null]

\* the synchronous part of logout
LogoutHook(h) ==
    [h EXCEPT !.isLoggedIn = FALSE, !.isEmailVerified = FALSE, !.verifiedEmail = <<>>,
              !.user = NullUser, !.accessToken = Null]

(*------------------------------ operations --------------------------------*)

Init ==
    /\ USE_SUPABASE_DIRECTLY \in BOOLEAN
    /\ localStorage \in {EmptyStorage, StoredSession(TokA, EmailLower)}
    /\ hook = [i \in Instances |-> InitialHook]
    /\ calls = [s \in Slots |-> IdleCall]
    /\ returned = NoReturn
    /\ ncalls = 0
    /\ location = Location("/events", NoFrom)
    /\ form = InitialForm
    /\ meetupsCall = IdleFetch

\* slot s holds the next invocation: it is the first free slot, and the cap is not reached
CanInvoke(s, i) ==
    /\ calls[s].pc = "idle"
    /\ \A t \in Slots : t < s => calls[t].pc # "idle"
    /\ hook[i].effectRan
    /\ ncalls < MaxCalls

\* an invocation that has just begun
Started(op, i, email) == [IdleCall EXCEPT !.op = op, !.inst = i, !.email = email]

\* a variant of Dispatch that starts the Supabase request together with the Flask request
Dispatch_parallel(call) ==
    IF ~USE_SUPABASE_DIRECTLY
    THEN [call EXCEPT !.pc = "awaitPrimary", !.primary = "pending", !.primaryRequests = @ + 1,
                      !.secondary = "pending", !.secondaryRequests = @ + 1]
    ELSE [call EXCEPT !.pc = "awaitSecondary", !.secondary = "pending",
                      !.secondaryRequests = @ + 1]

\* a variant of Dispatch that does not read USE_SUPABASE_DIRECTLY
Dispatch_ignoreFlag(call) ==
    [call EXCEPT !.pc = "awaitPrimary", !.primary = "pending", !.primaryRequests = @ + 1]

\* the part of login and signup between validation and the first await
Dispatch(call) ==
    IF ~USE_SUPABASE_DIRECTLY
    THEN [call EXCEPT !.pc = "awaitPrimary", !.primary = "pending", !.primaryRequests = @ + 1]
    ELSE [call EXCEPT !.pc = "awaitSecondary", !.secondary = "pending",
                      !.secondaryRequests = @ + 1]

\* a variant of Fallback that sends the Flask request again before giving up on it
Fallback_retry(call, status) ==
    IF call.primaryRequests < 2
    THEN [call EXCEPT !.pc = "awaitPrimary", !.status = status, !.primaryRequests = @ + 1]
    ELSE [call EXCEPT !.pc = "awaitSecondary", !.primary = "eligible", !.status = status,
                      !.secondary = "pending", !.secondaryRequests = @ + 1]

\* the inner catch block swallows the error: control falls through to the Supabase request
Fallback(call, status) ==
    [call EXCEPT !.pc = "awaitSecondary", !.primary = "eligible", !.status = status,
                 !.secondary = "pending", !.secondaryRequests = @ + 1]

\* useEffect(() => { ... }, []) of useAuth
RestoreEffect(i) ==
    /\ ~hook[i].effectRan
    /\ hook' = [hook EXCEPT ![i] = RestoredHook(@, localStorage)]
    /\ returned' = NoReturn
    /\ UNCHANGED <<USE_SUPABASE_DIRECTLY, meetupsCall, form, localStorage, calls, ncalls, location>>

\* login(email, password) up to its first await, or to its return when validation fails
LoginCall(s, i, email, password) ==
    /\ CanInvoke(s, i)
    /\ ncalls' = ncalls + 1
    /\ IF ~isValidUTDEmail(email)
       THEN /\ hook' = [hook EXCEPT ![i] = FinallyHook(@)]
            /\ returned' = ReturnEvent(Started("login", i, email), Failure(S_OnlyUTD))
            /\ UNCHANGED calls
       ELSE /\ hook' = [hook EXCEPT ![i].isLoading = TRUE]
            /\ calls' = [calls EXCEPT ![s] = Dispatch(Started("login", i, email))]
            /\ returned' = NoReturn
    /\ UNCHANGED <<USE_SUPABASE_DIRECTLY, meetupsCall, localStorage, location>>

\* login called by a component that keeps no form
Login(s, i, email, password) == LoginCall(s, i, email, password) /\ UNCHANGED form

\* login resumes when the fetch of /auth/login (and the read of its body) has settled
LoginPrimarySettles(s, outcome) ==
    /\ calls[s].pc = "awaitPrimary"
    /\ calls[s].op = "login"
    /\ LET r == PrimaryLoginResult(outcome)
           i == calls[s].inst
       IN IF ~r.thrown
          THEN /\ localStorage' = PrimarySuccessStorage(r.data)
               /\ hook' = [hook EXCEPT ![i] = FinallyHook(PrimarySuccessHook(@, r.data))]
               /\ calls' = [calls EXCEPT ![s] = IdleCall]
               /\ returned' = ReturnEvent([calls[s] EXCEPT !.primary = "ok", !.status = outcome.status],
                                          Success(r.data))
          ELSE IF FallbackEligible(r.message)
          THEN /\ calls' = [calls EXCEPT ![s] = Fallback(@, outcome.status)]
               /\ returned' = NoReturn
               /\ UNCHANGED <<localStorage, hook>>
          ELSE /\ localStorage' = EmptyStorage
               /\ hook' = [hook EXCEPT ![i] = FinallyHook(LoginCatchHook(@))]
               /\ calls' = [calls EXCEPT ![s] = IdleCall]
               /\ returned' = ReturnEvent([calls[s] EXCEPT !.primary = "rethrown", !.status = outcome.status],
                                          Failure(r.message))
    /\ UNCHANGED <<USE_SUPABASE_DIRECTLY, meetupsCall, form, ncalls, location>>

\* login resumes when supabase.auth.signInWithPassword has settled
LoginSecondarySettles(s, outcome) ==
    /\ calls[s].pc = "awaitSecondary"
    /\ calls[s].op = "login"
    /\ LET r == SecondaryLoginResult(outcome)
           i == calls[s].inst
       IN IF ~r.thrown
          THEN /\ localStorage' = SecondarySuccessStorage(r.data)
               /\ hook' = [hook EXCEPT ![i] = FinallyHook(SecondarySuccessHook(@, r.data))]
               /\ returned' = ReturnEvent([calls[s] EXCEPT !.secondary = "ok"],
                                          Success(r.data))
          ELSE /\ localStorage' = EmptyStorage
               /\ hook' = [hook EXCEPT ![i] = FinallyHook(LoginCatchHook(@))]
               /\ returned' = ReturnEvent([calls[s] EXCEPT !.secondary = "failed"],
                                          Failure(r.message))
    /\ calls' = [calls EXCEPT ![s] = IdleCall]
    /\ UNCHANGED <<USE_SUPABASE_DIRECTLY, meetupsCall, form, ncalls, location>>

\* signup(email, password, metadata) up to its first await, or to its return
SignupCall(s, i, email, password) ==
    /\ CanInvoke(s, i)
    /\ ncalls' = ncalls + 1
    /\ IF ~isValidUTDEmail(email)
       THEN /\ hook' = [hook EXCEPT ![i] = FinallyHook(@)]
            /\ returned' = ReturnEvent(Started("signup", i, email), Failure(S_OnlyUTD))
            /\ UNCHANGED calls
       ELSE /\ hook' = [hook EXCEPT ![i].isLoading = TRUE]
            /\ calls' = [calls EXCEPT ![s] = Dispatch(Started("signup", i, email))]
            /\ returned' = NoReturn
    /\ UNCHANGED <<USE_SUPABASE_DIRECTLY, meetupsCall, localStorage, location>>

\* signup called by a component that keeps no form
Signup(s, i, email, password) == SignupCall(s, i, email, password) /\ UNCHANGED form

\* signup resumes when the fetch of /auth/register (and the read of its body) has settled
SignupPrimarySettles(s, outcome) ==
    /\ calls[s].pc = "awaitPrimary"
    /\ calls[s].op = "signup"
    /\ LET r == PrimarySignupResult(outcome)
           i == calls[s].inst
       IN IF ~r.thrown
          THEN /\ hook' = [hook EXCEPT ![i] = FinallyHook(@)]
               /\ calls' = [calls EXCEPT ![s] = IdleCall]
               /\ returned' = ReturnEvent([calls[s] EXCEPT !.primary = "ok", !.status = outcome.status],
                                          Success(r.data))
          ELSE IF FallbackEligible(r.message)
          THEN /\ calls' = [calls EXCEPT ![s] = Fallback(@, outcome.status)]
               /\ returned' = NoReturn
               /\ UNCHANGED hook
          ELSE /\ hook' = [hook EXCEPT ![i] = FinallyHook(@)]
               /\ calls' = [calls EXCEPT ![s] = IdleCall]
               /\ returned' = ReturnEvent([calls[s] EXCEPT !.primary = "rethrown", !.status = outcome.status],
                                          Failure(r.message))
    /\ UNCHANGED <<USE_SUPABASE_DIRECTLY, meetupsCall, form, localStorage, ncalls, location>>

\* signup resumes when supabase.auth.signUp has settled
SignupSecondarySettles(s, outcome) ==
    /\ calls[s].pc = "awaitSecondary"
    /\ calls[s].op = "signup"
    /\ LET r == SecondarySignupResult(outcome)
           i == calls[s].inst
       IN /\ hook' = [hook EXCEPT ![i] = FinallyHook(@)]
          /\ returned' = IF r.thrown
                         THEN ReturnEvent([calls[s] EXCEPT !.secondary = "failed"],
                                          Failure(r.message))
                         ELSE ReturnEvent([calls[s] EXCEPT !.secondary = "ok"],
                                          Success(r.data))
    /\ calls' = [calls EXCEPT ![s] = IdleCall]
    /\ UNCHANGED <<USE_SUPABASE_DIRECTLY, meetupsCall, form, localStorage, ncalls, location>>

\* logout() up to its await of supabase.auth.signOut()
Logout(s, i) ==
    /\ CanInvoke(s, i)
    /\ ncalls' = ncalls + 1
    /\ hook' = [hook EXCEPT ![i] = LogoutHook(@)]
    /\ localStorage' = EmptyStorage
    /\ calls' = [calls EXCEPT ![s] =
            [Started("logout", i, <<>>) EXCEPT !.pc = "awaitSignOut", !.secondary = "pending",
                                               !.secondaryRequests = @ + 1]]
    /\ returned' = NoReturn
    /\ UNCHANGED <<USE_SUPABASE_DIRECTLY, meetupsCall, form, location>>

\* a variant of LogoutResult that lets the rejection of signOut reach the caller
LogoutResult_rethrow(rejected) == IF rejected THEN Uncaught(S_FailedToFetch) ELSE Void

\* what the promise of logout settles with: the catch block only logs a rejection
LogoutResult(rejected) == Void

\* logout resumes when signOut has resolved or rejected
LogoutSettles(s, rejected) ==
    /\ calls[s].pc = "awaitSignOut"
    /\ returned' = ReturnEvent([calls[s] EXCEPT !.secondary = IF rejected THEN "failed" ELSE "ok"],
                               LogoutResult(rejected))
    /\ calls' = [calls EXCEPT ![s] = IdleCall]
    /\ UNCHANGED <<USE_SUPABASE_DIRECTLY, meetupsCall, form, localStorage, hook, ncalls, location>>

Next ==
    \/ \E i \in Instances : RestoreEffect(i)
    \/ \E s \in Slots, i \in Callers, e \in Emails, p \in Passwords : Login(s, i, e, p)
    \/ \E s \in Slots : \E o \in PrimaryOutcomes(calls[s].email) :
            LoginPrimarySettles(s, o)
    \/ \E s \in Slots : \E o \in SecondaryLoginOutcomes(calls[s].email) :
            LoginSecondarySettles(s, o)
    \/ \E s \in Slots, i \in Callers, e \in Emails, p \in Passwords : Signup(s, i, e, p)
    \/ \E s \in Slots : \E o \in PrimaryOutcomes(calls[s].email) :
            SignupPrimarySettles(s, o)
    \/ \E s \in Slots : \E o \in SecondarySignupOutcomes(calls[s].email) :
            SignupSecondarySettles(s, o)
    \/ \E s \in Slots, i \in Callers : Logout(s, i)
    \/ \E s \in Slots, r \in BOOLEAN : LogoutSettles(s, r)

Spec == Init /\ [][Next]_vars

(*------------------------- the pages and the router -----------------------*)

\* the request the invocation in slot s awaits settles, and the invocation resumes
Settles(s) ==
    \/ \E o \in PrimaryOutcomes(calls[s].email) : LoginPrimarySettles(s, o)
    \/ \E o \in SecondaryLoginOutcomes(calls[s].email) : LoginSecondarySettles(s, o)
    \/ \E o \in PrimaryOutcomes(calls[s].email) : SignupPrimarySettles(s, o)
    \/ \E o \in SecondarySignupOutcomes(calls[s].email) : SignupSecondarySettles(s, o)
    \/ \E r \in BOOLEAN : LogoutSettles(s, r)

\* every request settles (no request stays pending forever), and React runs the mount
\* effect of every mounted component
FairSpec ==
    /\ Spec
    /\ \A s \in Slots : WF_vars(Settles(s))
    /\ \A i \in Instances : WF_vars(RestoreEffect(i))

\* the useAuth() instances of the components the current route renders: AuthPage at
\* /auth, a page and the useRequireAuth of its ProtectedRoute at the other routes
Mounted(i) == i = "page" \/ location.pathname \in ProtectedPaths

\* navigate(pathname, { state: { from } }): another route renders, and its components
\* mount with the initial values of their useState cells
Navigate(pathname, from) ==
    /\ location' = Location(pathname, from)
    /\ hook' = IF pathname = location.pathname THEN hook
               ELSE [i \in Instances |-> InitialHook]
    /\ form' = IF pathname = location.pathname THEN form ELSE InitialForm

\* a variant of ShouldRedirect that does not wait for the restore
ShouldRedirect_whileLoading(h) == ~h.isLoggedIn

\* the test of the effect of useRequireAuth
ShouldRedirect(h) == ~h.isLoading /\ ~h.isLoggedIn

\* the effect of useRequireAuth
RequireAuthEffect ==
    /\ Mounted("guard")
    /\ ShouldRedirect(hook["guard"])
    /\ Navigate(AuthPath, location.pathname)
    /\ returned' = NoReturn
    /\ UNCHANGED <<USE_SUPABASE_DIRECTLY, meetupsCall, localStorage, calls, ncalls>>

\* the message of `new Error(result.error.message)`: result.error is the Error the
\* hook caught or made
ThrownMessage(result) == result.error

\* AuthPage.validateUTDEmail
validateUTDEmail(email) == EndsWith(ToLowerCase(email), S_suffix)

\* AuthPage's isLoading: a submission is being handled, the submit buttons are disabled
Submitting == \E s \in Slots : calls[s].op \in {"login", "signup"}
\* login or signup has just resolved: the handler that awaits it runs next
HandlerResuming == returned.op \in {"login", "signup"}

\* handleLogin up to its await of login
handleLogin(s, email, password) ==
    /\ location.pathname = AuthPath
    /\ ~Submitting
    /\ IF ~validateUTDEmail(email)
       THEN /\ form' = [clearError(form) EXCEPT !.loginEmailError = M_UseUTDEmail]
            /\ returned' = NoReturn
            /\ UNCHANGED <<USE_SUPABASE_DIRECTLY, meetupsCall, localStorage, hook, calls, ncalls, location>>
       ELSE /\ form' = clearError(form)
            /\ LoginCall(s, "page", email, password)

\* where handleLogin navigates after a successful login
LoginDestination(loc) == "/events"

\* handleLogin after its await of login
handleLoginResumes ==
    /\ returned.op = "login"
    /\ IF returned.result.success
       THEN Navigate(LoginDestination(location), NoFrom)
       ELSE /\ form' = [form EXCEPT !.errorMessage =
                            OrElse(ThrownMessage(returned.result), M_LoginError)]
            /\ UNCHANGED <<hook, location>>
    /\ returned' = NoReturn
    /\ UNCHANGED <<USE_SUPABASE_DIRECTLY, meetupsCall, localStorage, calls, ncalls>>

\* a variant of handleSignup that does not compare the two passwords
handleSignup_noConfirm(s, email, password, confirm) ==
    /\ location.pathname = AuthPath
    /\ ~Submitting
    /\ IF ~validateUTDEmail(email)
       THEN /\ form' = [clearError(form) EXCEPT !.signupEmailError = M_UseUTDEmail]
            /\ returned' = NoReturn
            /\ UNCHANGED <<USE_SUPABASE_DIRECTLY, meetupsCall, localStorage, hook, calls, ncalls, location>>
       ELSE /\ form' = clearError(form)
            /\ SignupCall(s, "page", email, password)

\* handleSignup up to its await of signup
handleSignup(s, email, password, confirm) ==
    /\ location.pathname = AuthPath
    /\ ~Submitting
    /\ IF ~validateUTDEmail(email)
       THEN /\ form' = [clearError(form) EXCEPT !.signupEmailError = M_UseUTDEmail]
            /\ returned' = NoReturn
            /\ UNCHANGED <<USE_SUPABASE_DIRECTLY, meetupsCall, localStorage, hook, calls, ncalls, location>>
       ELSE IF password # confirm
       THEN /\ form' = [clearError(form) EXCEPT !.errorMessage = M_PasswordsDontMatch]
            /\ returned' = NoReturn
            /\ UNCHANGED <<USE_SUPABASE_DIRECTLY, meetupsCall, localStorage, hook, calls, ncalls, location>>
       ELSE /\ form' = clearError(form)
            /\ SignupCall(s, "page", email, password)

\* result.data?.user && !result.data.user.email_confirmed_at
NeedsConfirmation(data) ==
    /\ data.tag = "supabase"
    /\ data.user # NullUser
    /\ ~Truthy(data.user.email_confirmed_at)

\* handleSignup after its await of signup
handleSignupResumes ==
    /\ returned.op = "signup"
    /\ IF returned.result.success
       THEN IF NeedsConfirmation(returned.result.data)
            THEN Navigate(AuthPath, NoFrom)
            ELSE Navigate("/events", NoFrom)
       ELSE /\ form' = [form EXCEPT !.errorMessage =
                            OrElse(ThrownMessage(returned.result), M_SignupError)]
            /\ UNCHANGED <<hook, location>>
    /\ returned' = NoReturn
    /\ UNCHANGED <<USE_SUPABASE_DIRECTLY, meetupsCall, localStorage, calls, ncalls>>

AppInit ==
    /\ USE_SUPABASE_DIRECTLY \in BOOLEAN
    /\ localStorage \in {EmptyStorage, StoredSession(TokA, EmailLower)}
    /\ hook = [i \in Instances |-> InitialHook]
    /\ calls = [s \in Slots |-> IdleCall]
    /\ returned = NoReturn
    /\ ncalls = 0
    /\ location \in {Location(p, NoFrom) : p \in ProtectedPaths \cup {AuthPath}}
    /\ form = InitialForm
    /\ meetupsCall = IdleFetch

\* the mount effects of the components of the current route have all run: React
\* flushes the effects of a commit together, before it handles an event of the user
EffectsFlushed == \A i \in Instances : Mounted(i) => hook[i].effectRan

\* the application: the handlers of AuthPage call login and signup, a page behind the
\* guard calls logout; the handler awaiting a result resumes before anything else runs
AppNext ==
    \/ \E i \in Instances : ~HandlerResuming /\ Mounted(i) /\ RestoreEffect(i)
    \/ ~HandlerResuming /\ RequireAuthEffect
    \/ \E s \in Slots, e \in Emails, p \in Passwords :
            ~HandlerResuming /\ EffectsFlushed /\ handleLogin(s, e, p)
    \/ \E s \in Slots : \E o \in PrimaryOutcomes(calls[s].email) :
            ~HandlerResuming /\ LoginPrimarySettles(s, o)
    \/ \E s \in Slots : \E o \in SecondaryLoginOutcomes(calls[s].email) :
            ~HandlerResuming /\ LoginSecondarySettles(s, o)
    \/ handleLoginResumes
    \/ \E s \in Slots, e \in Emails, p \in Passwords, c \in Confirmations :
            ~HandlerResuming /\ EffectsFlushed /\ handleSignup(s, e, p, c)
    \/ \E s \in Slots : \E o \in PrimaryOutcomes(calls[s].email) :
            ~HandlerResuming /\ SignupPrimarySettles(s, o)
    \/ \E s \in Slots : \E o \in SecondarySignupOutcomes(calls[s].email) :
            ~HandlerResuming /\ SignupSecondarySettles(s, o)
    \/ handleSignupResumes
    \/ \E s \in Slots :
            ~HandlerResuming /\ EffectsFlushed /\ Mounted("guard") /\ Logout(s, "page")
    \/ \E s \in Slots, r \in BOOLEAN : ~HandlerResuming /\ LogoutSettles(s, r)

AppSpec == AppInit /\ [][AppNext]_vars

(*------------------------- the meetup service -----------------------------*)

\* "No description available"
S_NoDescription ==
    <<"N","o"," ","d","e","s","c","r","i","p","t","i","o","n"," ","a","v","a","i","l",
      "a","b","l","e">>
\* "Other"
S_Other ==
    <<"O","t","h","e","r">>
\* "Student"
S_Student ==
    <<"S","t","u","d","e","n","t">>
\* "Study"
S_Study ==
    <<"S","t","u","d","y">>
\* "Library"
S_Library ==
    <<"L","i","b","r","a","r","y">>
\* "Chess"
S_Chess ==
    <<"C","h","e","s","s">>
\* "2025-03-01T18:00:00"
S_EventDate ==
    <<"2","0","2","5","-","0","3","-","0","1","T","1","8",":","0","0",":","0","0">>
\* "3/1/2025, 6:00:00 PM"
S_EventDateLocal ==
    <<"3","/","1","/","2","0","2","5",","," ","6",":","0","0",":","0","0"," ","P","M">>

\* a meetup as the Flask API gives it (FlaskMeetup)
FlaskMeetup(id, title, description, points, category) ==
    [id |-> NumberToString(id), title |-> title, description |-> description,
     dateTime |-> S_EventDateLocal, location |-> S_Library, points |-> points,
     createdBy |-> S_Student, creatorAvatar |-> Undefined, lobbySize |-> 5,
     category |-> category, attendees |-> <<>>]
FlaskMeetups ==
    {FlaskMeetup(1, S_Study, S_Study, 5, S_Study), FlaskMeetup(2, S_Chess, S_Chess, 3, S_Other)}
\* a row of the Supabase table `events` (EventRow); description and category may be
\* null, xp_reward may be null or 0 (both written 0 here: `||` treats them alike)
EventRow(id, title, description, xp_reward, category) ==
    [id |-> id, title |-> title, description |-> description, event_date |-> S_EventDate,
     location |-> S_Library, xp_reward |-> xp_reward, category |-> category]
EventRows ==
    {EventRow(1, S_Study, S_Study, 5, S_Study), EventRow(2, S_Chess, Null, 0, Null),
     EventRow(3, S_Chess, S_Chess, 0, S_Study)}
\* the lists of at most n elements of S
ListsUpTo(S, n) == UNION {[1..k -> S] : k \in 0..n}

\* what meetupsApi.getAllMeetups() can settle with: a rejection, or { data, error }
ApiResponse(data, error) == [kind |-> "resolve", data |-> data, error |-> error]
ApiRejection(message) == [kind |-> "reject", data |-> NullList, error |-> message]
PrimaryMeetupsOutcomes ==
    {ApiRejection(S_FailedToFetch)}
    \cup {ApiResponse(NullList, e) : e \in {S_NetworkError, S_ServerError}}
    \cup {ApiResponse(List(<<m>>), S_ServerError) : m \in FlaskMeetups}
    \cup {ApiResponse(NullList, Undefined)}
    \cup {ApiResponse(List(l), Undefined) : l \in ListsUpTo(FlaskMeetups, MaxRows)}
\* what supabase.from('events').select('*') can settle with: a rejection, or
\* { data, error } where error is null or an error object (written as its message)
SecondaryMeetupsOutcomes ==
    {ApiRejection(S_FailedToFetch)}
    \cup {ApiResponse(NullList, S_ServerError)}
    \cup {ApiResponse(NullList, Null)}
    \cup {ApiResponse(List(l), Null) : l \in ListsUpTo(EventRows, MaxRows)}

\* new Date(event_date).toLocaleString() in the en-US locale, for the date of the rows
toLocaleString(date) == IF date = S_EventDate THEN S_EventDateLocal ELSE S_EventDate

\* the callback of eventRows.map: an EventRow in the FlaskMeetup format
toFlaskMeetup(event) ==
    [id |-> NumberToString(event.id),
     title |-> event.title,
     description |-> OrElse(event.description, S_NoDescription),
     dateTime |-> toLocaleString(event.event_date),
     location |-> event.location,
     points |-> IF event.xp_reward # 0 THEN event.xp_reward ELSE 3,
     createdBy |-> S_Student,
     creatorAvatar |-> Undefined,
     lobbySize |-> 5,
     category |-> OrElse(event.category, S_Other),
     attendees |-> <<>>]

\* if (response.error)
NeedsFallback(response) == Truthy(response.error)

\* return response.data || []
PrimaryMeetups(response) == IF response.data = NullList THEN List(<<>>) ELSE response.data

\* the Supabase branch after its await: throw error, the mapped rows, or []
SecondaryMeetups(outcome) ==
    IF outcome.error # Null THEN [thrown |-> TRUE, value |-> NullList]
    ELSE IF outcome.data # NullList /\ Len(outcome.data.items) > 0
    THEN [thrown |-> FALSE,
          value |-> List([k \in 1..Len(outcome.data.items) |->
                             toFlaskMeetup(outcome.data.items[k])])]
    ELSE [thrown |-> FALSE, value |-> List(<<>>)]

\* a variant of CatchBlock that throws the error again
CatchBlock_rethrow(call) == [call EXCEPT !.pc = "done", !.thrown = TRUE]

\* the catch block of fetchMeetups: log the error and return []
CatchBlock(call) == [call EXCEPT !.pc = "done", !.result = List(<<>>)]

\* fetchMeetups() up to its await of meetupsApi.getAllMeetups()
fetchMeetups ==
    /\ meetupsCall.pc \in {"idle", "done"}
    /\ meetupsCall.invocation < MaxFetches
    /\ meetupsCall' = [IdleFetch EXCEPT !.pc = "awaitPrimary", !.primaryQueries = 1,
                                        !.invocation = meetupsCall.invocation + 1]
    /\ UNCHANGED <<USE_SUPABASE_DIRECTLY, localStorage, hook, calls, returned, ncalls,
                   location, form>>

\* fetchMeetups resumes when getAllMeetups has settled
MeetupsPrimarySettles(outcome) ==
    /\ meetupsCall.pc = "awaitPrimary"
    /\ LET call == [meetupsCall EXCEPT !.primary = outcome] IN
       meetupsCall' =
          IF outcome.kind = "reject" THEN CatchBlock(call)
          ELSE IF NeedsFallback(outcome)
          THEN [call EXCEPT !.pc = "awaitSecondary", !.secondaryQueries = @ + 1]
          ELSE [call EXCEPT !.pc = "done", !.result = PrimaryMeetups(outcome)]
    /\ UNCHANGED <<USE_SUPABASE_DIRECTLY, localStorage, hook, calls, returned, ncalls,
                   location, form>>

\* fetchMeetups resumes when the select on `events` has settled
MeetupsSecondarySettles(outcome) ==
    /\ meetupsCall.pc = "awaitSecondary"
    /\ LET call == [meetupsCall EXCEPT !.secondary = outcome] IN
       meetupsCall' =
          IF outcome.kind = "reject" \/ SecondaryMeetups(outcome).thrown
          THEN CatchBlock(call)
          ELSE [call EXCEPT !.pc = "done", !.result = SecondaryMeetups(outcome).value]
    /\ UNCHANGED <<USE_SUPABASE_DIRECTLY, localStorage, hook, calls, returned, ncalls,
                   location, form>>

\* a component that uses the meetup service; the authentication state plays no part
MeetupsInit ==
    /\ USE_SUPABASE_DIRECTLY = TRUE
    /\ localStorage = EmptyStorage
    /\ hook = [i \in Instances |-> InitialHook]
    /\ calls = [s \in Slots |-> IdleCall]
    /\ returned = NoReturn
    /\ ncalls = 0
    /\ location = Location("/events", NoFrom)
    /\ form = InitialForm
    /\ meetupsCall = IdleFetch

MeetupsNext ==
    \/ fetchMeetups
    \/ \E o \in PrimaryMeetupsOutcomes : MeetupsPrimarySettles(o)
    \/ \E o \in SecondaryMeetupsOutcomes : MeetupsSecondarySettles(o)

MeetupsSpec == MeetupsInit /\ [][MeetupsNext]_vars

(*------------------------------ properties --------------------------------*)

\* what the application does without the user: a pending request settles, the handler
\* that awaited a result resumes, React runs the mount effects and the guard's effect
FairAppSpec ==
    /\ AppSpec
    /\ \A s \in Slots : WF_vars(~HandlerResuming /\ Settles(s))
    /\ \A i \in Instances : WF_vars(~HandlerResuming /\ Mounted(i) /\ RestoreEffect(i))
    /\ WF_vars(~HandlerResuming /\ RequireAuthEffect)
    /\ WF_vars(handleLoginResumes)
    /\ WF_vars(handleSignupResumes)

IsString(v) == v # Null /\ v # Undefined
InFlight(s) == calls[s].pc \in {"awaitPrimary", "awaitSecondary"}
AuthReturned == returned.op \in {"login", "signup"}
\* a token+email pair is in localStorage
PairStored(storage) ==
    storage.impulse_access_token # Null /\ storage.impulse_user_email # Null
\* the empty session of the data model, and both keys absent
IsEmptySession(h) ==
    /\ h.isLoggedIn = FALSE
    /\ h.isEmailVerified = FALSE
    /\ h.verifiedEmail = <<>>
    /\ h.accessToken = Null
    /\ h.user = NullUser
KeysAbsent(storage) ==
    storage.impulse_access_token = Null /\ storage.impulse_user_email = Null
HasMarker(message) ==
    \/ Includes(message, S_404)
    \/ Includes(message, S_FailedToFetch)
    \/ Includes(message, S_LoadFailed)
\* the step resumed the login of slot s after its primary (secondary) request
PrimarySettled(s) ==
    calls[s].op = "login" /\ calls[s].pc = "awaitPrimary" /\ calls'[s].pc # "awaitPrimary"
\* the HTTP status that step kept for the request (0 for a rejected fetch)
SettledStatus(s) ==
    IF calls'[s].pc = "awaitSecondary" THEN calls'[s].status ELSE returned'.status
SecondarySettled(s) ==
    calls[s].op = "login" /\ calls[s].pc = "awaitSecondary" /\ calls'[s].pc # "awaitSecondary"
\* the fields of the session other than isLoading
SessionOf(h) == <<h.isLoggedIn, h.isEmailVerified, h.verifiedEmail, h.accessToken, h.user>>

\* C1 (as stated): an email that does not end in "@utdallas.edu", compared as written,
\* makes login and signup return Failure without a request to either backend.
C1_AsStated ==
    /\ \A s \in Slots : InFlight(s) => EndsWith(calls[s].email, S_suffix)
    /\ AuthReturned /\ ~EndsWith(returned.email, S_suffix)
         => /\ returned.result.success = FALSE
            /\ returned.primary = "none"
            /\ returned.secondary = "none"

\* C1 (amended): an email whose lower-cased form does not end in "@utdallas.edu" makes
\* login and signup return Failure without a request to either backend.
C1_InvalidEmailFailsWithoutRequest ==
    /\ \A s \in Slots : InFlight(s) => EndsWith(ToLowerCase(calls[s].email), S_suffix)
    /\ AuthReturned /\ ~EndsWith(ToLowerCase(returned.email), S_suffix)
         => /\ returned.result.success = FALSE
            /\ returned.result.error = S_OnlyUTD
            /\ returned.primary = "none"
            /\ returned.secondary = "none"

C1_Witness ==
    /\ returned.op = "login"
    /\ returned.email = EmailTrail
    /\ returned.result.success = FALSE
    /\ \E s \in Slots : InFlight(s) /\ calls[s].op = "signup" /\ calls[s].email = EmailMixed

\* C2 (as stated): after a login that succeeded through the primary backend the session
\* is logged in with the email passed to login and the token of the response, and the
\* two persisted keys hold those two values.
C2_AsStated ==
    returned.op = "login" /\ returned.primary = "ok" =>
        LET h == hook[returned.inst] IN
        /\ returned.result.success
        /\ h.isLoggedIn
        /\ h.verifiedEmail = returned.email
        /\ h.accessToken = returned.result.data.access_token
        /\ localStorage.impulse_user_email = returned.email
        /\ localStorage.impulse_access_token = returned.result.data.access_token

\* C2 (amended): after a login that succeeded through the primary backend the session is
\* logged in with the email and the token of the response body, and each persisted key
\* holds the same value whenever the response gave a string for it.
C2_PrimarySuccessSession ==
    returned.op = "login" /\ returned.primary = "ok" =>
        LET h == hook[returned.inst]
            data == returned.result.data
        IN /\ returned.result.success
           /\ h.isLoggedIn
           /\ h.verifiedEmail = data.email
           /\ h.accessToken = data.access_token
           /\ IsString(data.email) => localStorage.impulse_user_email = data.email
           /\ IsString(data.access_token) => localStorage.impulse_access_token = data.access_token

C2_Witness ==
    /\ returned.op = "login"
    /\ returned.primary = "ok"
    /\ returned.email = EmailMixed
    /\ hook[returned.inst].verifiedEmail = EmailLower
    /\ hook[returned.inst].accessToken = TokB
    /\ localStorage = [impulse_access_token |-> TokB, impulse_user_email |-> EmailLower]

C5_LogoutClearsSession ==
    [][\A s \in Slots, i \in Callers :
          Logout(s, i) => IsEmptySession(hook'[i]) /\ KeysAbsent(localStorage')]_vars

C5_Witness ==
    /\ \E s \in Slots : calls[s].op = "logout" /\ calls[s].pc = "awaitSignOut"
    /\ IsEmptySession(hook["page"])
    /\ KeysAbsent(localStorage)
    /\ hook["guard"].isLoggedIn

\* C6: logout is idempotent: performing the writes of logout on the state a logout
\* left changes neither the caller's session nor the persisted keys.
C6_LogoutIdempotent ==
    [][\A s \in Slots, i \in Callers :
          Logout(s, i) => /\ LogoutHook(hook'[i]) = hook'[i]
                          /\ EmptyStorage = localStorage']_vars

C6_Witness ==
    /\ \A s \in Slots : calls[s].op = "logout" /\ calls[s].pc = "awaitSignOut"
    /\ IsEmptySession(hook["page"])
    /\ KeysAbsent(localStorage)

\* C7: whenever isLoading is false in a consumer of the hook, a token+email pair is
\* persisted exactly when that consumer's session is logged in, and then the persisted
\* token and email are the session's (as strings, the only values the storage holds).
C7_PersistedAgreesWithSession ==
    \A i \in Instances :
        ~hook[i].isLoading =>
            /\ PairStored(localStorage) <=> hook[i].isLoggedIn
            /\ hook[i].isLoggedIn =>
                 /\ localStorage.impulse_access_token = ToStorageString(hook[i].accessToken)
                 /\ localStorage.impulse_user_email = ToStorageString(hook[i].verifiedEmail)

\* C8: when login returns Failure because of a backend error or an exception, the
\* caller's session is then the complete empty state and both persisted keys are absent.
C8_LoginFailureEmptiesSession ==
    /\ returned.op = "login"
    /\ returned.result.success = FALSE
    /\ returned.primary = "rethrown" \/ returned.secondary = "failed"
    => IsEmptySession(hook[returned.inst]) /\ KeysAbsent(localStorage)

C10_AsStated ==
    /\ \A s \in Slots :
          /\ calls[s].secondary # "none" /\ calls[s].op # "logout" => calls[s].primary = "eligible"
          /\ calls[s].primary \in {"pending", "ok"} => calls[s].secondary = "none"
    /\ AuthReturned =>
          /\ returned.secondary # "none" => returned.primary = "eligible"
          /\ returned.primary \in {"pending", "ok"} => returned.secondary = "none"

\* C10 (amended): in a login or signup that calls the primary backend, the secondary
\* request is sent only after the primary request has settled with a failure that makes
\* the fallback apply, never while it is pending and never after a primary success; with
\* USE_SUPABASE_DIRECTLY set the secondary request is sent with no primary request.
C10_SecondaryAfterPrimary ==
    LET Ordered(c) ==
          /\ c.secondary # "none" =>
                IF USE_SUPABASE_DIRECTLY THEN c.primary = "none" ELSE c.primary = "eligible"
          /\ c.primary \in {"pending", "ok", "rethrown"} => c.secondary = "none"
    IN /\ \A s \in Slots : calls[s].op \in {"login", "signup"} => Ordered(calls[s])
       /\ AuthReturned => Ordered(returned)

C10_Witness ==
    /\ returned.op = "signup"
    /\ returned.primary = "eligible"
    /\ returned.secondary = "failed"
    /\ \E s \in Slots : calls[s].op = "login" /\ calls[s].primary = "pending"

\* C11: an invocation of login or signup sends at most one request to each backend: one
\* Flask request at most, one Supabase request at most (the fallback happens once), and
\* an invocation whose Supabase request failed has returned without any further request.
C11_AtMostOneRequestEach ==
    LET Once(c) ==
          /\ c.primaryRequests = (IF c.primary = "none" THEN 0 ELSE 1)
          /\ c.secondaryRequests = (IF c.secondary = "none" THEN 0 ELSE 1)
    IN /\ \A s \in Slots : calls[s].op \in {"login", "signup"} => Once(calls[s])
       /\ AuthReturned => Once(returned)
       /\ \A s \in Slots : calls[s].secondary # "failed"

C11_Witness ==
    /\ returned.op = "login"
    /\ returned.primary = "eligible"
    /\ returned.secondary = "failed"
    /\ returned.primaryRequests = 1
    /\ returned.secondaryRequests = 1
    /\ \E s \in Slots : /\ calls[s].op = "signup"
                        /\ calls[s].pc = "awaitSecondary"
                        /\ calls[s].primaryRequests = 1

\* the step is a step of a signup invocation: its call, its resumption or its return
SignupStep ==
    \/ returned'.op = "signup"
    \/ \E s \in Slots : calls'[s].op = "signup" /\ calls'[s] # calls[s]

\* C12: no step of signup (validation failure, Flask success, fallback, Supabase success
\* or failure) changes loggedIn, emailVerified, email, accessToken or user of any consumer
\* of the hook, nor the two persisted keys; it only writes isLoading of its caller.
C12_SignupKeepsSession ==
    [][SignupStep =>
          /\ localStorage' = localStorage
          /\ \A i \in Instances :
                /\ SessionOf(hook'[i]) = SessionOf(hook[i])
                /\ hook'[i].effectRan = hook[i].effectRan
                /\ i \notin Callers => hook'[i] = hook[i]]_vars

C12_Witness ==
    /\ returned.op = "signup"
    /\ returned.secondary = "ok"
    /\ returned.result.success
    /\ returned.result.data.session = SupabaseSession(TokA)
    /\ IsEmptySession(hook[returned.inst])
    /\ ~hook[returned.inst].isLoading
    /\ KeysAbsent(localStorage)

\* C13: the step of logout that sends the sign-out request to Supabase has by then
\* emptied the caller's session and removed both keys, whatever the state was; when the
\* sign-out settles, rejected or not, logout resolves with undefined (nothing is thrown
\* to the caller) and neither the sessions nor the persisted keys change.
C13_LogoutClearsThenSignsOut ==
    [][\A s \in Slots :
          /\ calls[s].pc = "idle" /\ calls'[s].op = "logout"
                => /\ calls'[s].pc = "awaitSignOut"
                   /\ calls'[s].secondaryRequests = 1
                   /\ IsEmptySession(hook'[calls'[s].inst])
                   /\ KeysAbsent(localStorage')
          /\ calls[s].pc = "awaitSignOut" /\ calls'[s] # calls[s]
                => /\ calls'[s] = IdleCall
                   /\ returned'.op = "logout"
                   /\ returned'.result = Void
                   /\ hook' = hook
                   /\ localStorage' = localStorage]_vars

C13_Witness ==
    /\ returned.op = "logout"
    /\ returned.secondary = "failed"
    /\ returned.result = Void
    /\ IsEmptySession(hook[returned.inst])
    /\ KeysAbsent(localStorage)
    /\ hook["guard"].isLoggedIn

\* C14: while a protected page is shown, the location changes only by the guard's
\* redirect: it happens in a state where the guard's session has isLoading = false and
\* isLoggedIn = false, goes to /auth and carries the path it left in state.from; and the
\* redirect is due in exactly the states where the guard sees isLoading = false and
\* isLoggedIn = false.
C14_GuardRedirects ==
    /\ [][location' # location /\ location.pathname \in ProtectedPaths
            => /\ ~hook["guard"].isLoading
               /\ ~hook["guard"].isLoggedIn
               /\ location' = Location(AuthPath, location.pathname)]_vars
    /\ [](location.pathname \in ProtectedPaths =>
            ((ENABLED RequireAuthEffect)
                <=> (~hook["guard"].isLoading /\ ~hook["guard"].isLoggedIn)))

C14_Witness ==
    /\ location = Location(AuthPath, "/profile")
    /\ hook["guard"] = InitialHook
    /\ KeysAbsent(localStorage)

\* C15: when the guard has redirected from a protected path P to the login page and a
\* login then succeeds, the application navigates to P.
C15_BackToOrigin ==
    [][/\ returned.op = "login"
       /\ returned.result.success
       /\ location.pathname = AuthPath
       /\ location.from # NoFrom
       => location'.pathname = location.from]_vars

\* C16: what login and signup return is an object with exactly the keys success and data,
\* success being true and data a payload, or exactly the keys success and error, success
\* being false and error carrying a message; and every invocation that ends, ends by
\* returning such an object to its caller (no exception reaches the caller).
C16_OneTaggedOutcome ==
    /\ [](AuthReturned =>
            LET r == returned.result IN
            \/ r.keys = {"success", "data"} /\ r.success /\ r.data # NoData /\ r.error = Undefined
            \/ r.keys = {"success", "error"} /\ ~r.success /\ IsString(r.error) /\ r.data = NoData)
    /\ [][\A s \in Slots :
            calls[s].op \in {"login", "signup"} /\ calls'[s] # calls[s] /\ calls'[s].op # calls[s].op
               => /\ calls'[s] = IdleCall
                  /\ returned'.op = calls[s].op
                  /\ returned'.inst = calls[s].inst
                  /\ returned'.email = calls[s].email]_vars

C16_Witness ==
    /\ returned.op = "login"
    /\ returned.status = 200
    /\ returned.primary = "rethrown"
    /\ returned.result = Failure(S_Unexpected)
    /\ \E s \in Slots : calls[s].op = "signup" /\ calls[s].pc = "awaitSecondary"

\* the body of a Flask login response with the email and the token of a Supabase result
SameAsFlask(data) ==
    FlaskLoginData(Body(TRUE, Undefined, data.session.access_token, data.user.email))

\* C17 (as stated): a login that succeeds through Supabase leaves the caller's session
\* (loggedIn, emailVerified, email, accessToken, user) and the two persisted keys exactly
\* as a successful Flask login with the same email and token would.
C17_AsStated ==
    [][\A s \in Slots :
          /\ SecondarySettled(s)
          /\ returned'.result.success
          /\ IsString(returned'.result.data.user.email)
          => LET flask == SameAsFlask(returned'.result.data)
                 i == calls[s].inst
             IN /\ hook'[i] = FinallyHook(PrimarySuccessHook(hook[i], flask))
                /\ localStorage' = PrimarySuccessStorage(flask)]_vars

\* C17 (amended): a login that succeeds through Supabase leaves loggedIn, emailVerified,
\* email, accessToken and the two persisted keys exactly as a successful Flask login with
\* the same email and token would; user is the whole Supabase user object where the
\* Flask path stores an object with the email only, and both carry the same email.
C17_SameSessionButUser ==
    [][\A s \in Slots :
          /\ SecondarySettled(s)
          /\ returned'.result.success
          /\ IsString(returned'.result.data.user.email)
          => LET data == returned'.result.data
                 flask == SameAsFlask(data)
                 i == calls[s].inst
                 asFlask == FinallyHook(PrimarySuccessHook(hook[i], flask))
             IN /\ hook'[i] = [asFlask EXCEPT !.user = data.user]
                /\ hook'[i].user.email = asFlask.user.email
                /\ hook'[i].user # asFlask.user
                /\ localStorage' = PrimarySuccessStorage(flask)]_vars

C17_Witness ==
    /\ returned.op = "login"
    /\ returned.secondary = "ok"
    /\ hook[returned.inst].user = SupabaseUser(EmailLower)
    /\ hook[returned.inst].accessToken = TokB
    /\ hook[returned.inst].isEmailVerified
    /\ localStorage = StoredSession(TokB, EmailLower)

\* C18: with USE_SUPABASE_DIRECTLY set, a login or signup with a valid email sends no
\* request to Flask and its first request goes to Supabase; with the flag not set, its
\* first request goes to Flask, and Supabase is not asked while that request is pending.
C18_FlagSelectsBackend ==
    LET Direct(c) == c.primary = "none" /\ c.primaryRequests = 0 /\ c.secondaryRequests = 1
        PrimaryFirst(c) ==
            /\ c.primary # "none" /\ c.primaryRequests = 1
            /\ c.primary = "pending" => c.secondaryRequests = 0
        Chosen(c) == IF USE_SUPABASE_DIRECTLY THEN Direct(c) ELSE PrimaryFirst(c)
    IN /\ \A s \in Slots : calls[s].op \in {"login", "signup"} => Chosen(calls[s])
       /\ AuthReturned /\ isValidUTDEmail(returned.email) => Chosen(returned)

C18_Witness ==
    /\ USE_SUPABASE_DIRECTLY
    /\ returned.op = "login"
    /\ returned.result.success
    /\ returned.primaryRequests = 0
    /\ \E s \in Slots : calls[s].op = "signup" /\ calls[s].pc = "awaitSecondary"

\* the session of h is the one the restore builds from the token and email of storage
RestoredFrom(h, storage) ==
    /\ h.isLoggedIn
    /\ h.isEmailVerified
    /\ h.accessToken = storage.impulse_access_token
    /\ h.verifiedEmail = storage.impulse_user_email
    /\ h.user = [tag |-> "user", email |-> storage.impulse_user_email]

WrittenBy(result) ==
    IF ~result.success
    THEN [session |-> SessionOf(LogoutHook(InitialHook)), storage |-> EmptyStorage]
    ELSE IF result.data.tag = "flask"
    THEN [session |-> SessionOf(PrimarySuccessHook(InitialHook, result.data)),
          storage |-> PrimarySuccessStorage(result.data)]
    ELSE [session |-> SessionOf(SecondarySuccessHook(InitialHook, result.data)),
          storage |-> SecondarySuccessStorage(result.data)]

\* C20: when a login returns last of two overlapping logins (the other one completed
\* with token "xyz" while this one was in flight), the caller's session and the persisted
\* keys are exactly what the returning login writes: its success values, or the empty
\* state with both keys absent when it failed.
C20_LastWriteWins ==
    [][\A s \in Slots :
          /\ calls[s].op = "login"
          /\ calls'[s] = IdleCall
          /\ ~hook[calls[s].inst].isLoading
          /\ hook[calls[s].inst].accessToken = TokB
          /\ \A u \in Slots \ {s} : calls[u].op # "login"
          => /\ returned'.op = "login"
             /\ SessionOf(hook'[calls[s].inst]) = WrittenBy(returned'.result).session
             /\ localStorage' = WrittenBy(returned'.result).storage]_vars

\* the step resumed the login or signup of slot s after its primary request
PrimaryStep(s) == calls[s].pc = "awaitPrimary" /\ calls'[s].pc # "awaitPrimary"
\* what the inner try block of the invocation in slot s makes of outcome o
PrimaryResultOf(s, o) ==
    IF calls[s].op = "login" THEN PrimaryLoginResult(o) ELSE PrimarySignupResult(o)
PrimarySettlesWith(s, o) ==
    IF calls[s].op = "login" THEN LoginPrimarySettles(s, o) ELSE SignupPrimarySettles(s, o)

UnexpectedShape(body) ==
    ~body.parses \/ ~IsString(body.access_token) \/ ~IsString(body.email)

\* C22: a primary login response with an OK status whose body cannot be parsed, or lacks
\* access_token or email, is handled as a rejection: login returns Failure, no request
\* to the secondary backend is made, the caller's session is logged out and neither
\* key is persisted.
C22_UnexpectedShapeRejected ==
    [][\A s \in Slots : PrimarySettled(s) => \A o \in PrimaryOutcomes(calls[s].email) :
          /\ o.kind = "response"
          /\ ResponseOk(o.status)
          /\ UnexpectedShape(o.body)
          /\ o.status = SettledStatus(s)
          /\ LoginPrimarySettles(s, o)
          => /\ calls'[s].pc = "idle"
             /\ returned'.op = "login"
             /\ returned'.result.success = FALSE
             /\ returned'.secondaryRequests = 0
             /\ ~hook'[calls[s].inst].isLoggedIn
             /\ KeysAbsent(localStorage')]_vars

\* C23: when the sign-up form is submitted with an email outside the institutional
\* domain, or with a password different from its confirmation, the handler stops before
\* any network call: signup is not invoked, no request is made to either backend, and
\* the location does not change.
C23_ValidationShortCircuits ==
    [][\A s \in Slots, e \in Emails, p \in Passwords, c \in Confirmations :
          /\ ~validateUTDEmail(e) \/ p # c
          /\ handleSignup(s, e, p, c)
          => /\ ncalls' = ncalls
             /\ calls' = calls
             /\ returned'.op = "none"
             /\ hook' = hook
             /\ location' = location]_vars

C23_Witness ==
    /\ form.errorMessage = M_PasswordsDontMatch
    /\ form.signupEmailError = <<>>
    /\ location.pathname = AuthPath
    /\ ncalls = 1
    /\ returned.op = "none"
    /\ \A s \in Slots : calls[s].pc = "idle"

\* C24: while the guard's session is loading the guard does not redirect; and when the
\* application starts on a protected page with a token+email pair persisted, the guard
\* is never seen with isLoading = false and isLoggedIn = false, and the location never
\* becomes /auth.
C24_NoRedirectWhileLoading ==
    /\ [](Mounted("guard") /\ hook["guard"].isLoading => ~ENABLED RequireAuthEffect)
    /\ (PairStored(localStorage) /\ location.pathname \in ProtectedPaths)
          => [](/\ ~(~hook["guard"].isLoading /\ ~hook["guard"].isLoggedIn)
                /\ location.pathname # AuthPath)

C24_Witness ==
    /\ location = Location("/profile", NoFrom)
    /\ ncalls = 0
    /\ ~hook["guard"].isLoading
    /\ hook["guard"].isLoggedIn
    /\ hook["guard"].accessToken = TokA
    /\ hook["page"].isLoading

\* C25: when every backend call settles, every login and signup in flight eventually
\* returns, what it returns is a Success or a Failure, isLoading of the caller is false
\* when it has returned and no other attempt is in flight, and isLoading never stays
\* true forever.
C25_ReturnsAndStopsLoading ==
    /\ \A s \in Slots : InFlight(s) ~> ~InFlight(s)
    /\ [][\A s \in Slots : InFlight(s) /\ ~InFlight(s)'
            => /\ returned'.op = calls[s].op
               /\ returned'.inst = calls[s].inst
               /\ returned'.result.keys \in {{"success", "data"}, {"success", "error"}}]_vars
    /\ [](AuthReturned /\ (\A s \in Slots : ~InFlight(s)) => ~hook[returned.inst].isLoading)
    /\ \A i \in Instances : hook[i].isLoading ~> ~hook[i].isLoading

C25_Witness ==
    /\ returned.op = "login"
    /\ returned.primary = "eligible"
    /\ returned.secondary = "failed"
    /\ ncalls = 2
    /\ \A s \in Slots : calls[s].pc = "idle"
    /\ ~hook["page"].isLoading

\* C26: isLoading of a consumer is true in every state in which a login or signup it
\* invoked has passed validation and has not yet returned, also when several attempts
\* overlap or another call returns meanwhile.
C26_LoadingWhileInFlight ==
    \A s \in Slots : InFlight(s) => hook[calls[s].inst].isLoading

\* C27: a logout invoked while a login is in flight is not undone by that login. The
\* first two invocations are a login (slot 1) and, while it is in flight, a logout
\* (slot 2); the login has just returned and the step completes the logout: then the
\* caller's session is logged out and both persisted keys are absent.
C27_LogoutNotUndone ==
    [][/\ ncalls = 2
       /\ returned.op = "login"
       /\ calls[2].op = "logout"
       /\ calls[2].inst = returned.inst
       /\ calls'[2].pc = "idle"
       => /\ \A s \in Slots : calls'[s].pc = "idle"
          /\ ~hook'[returned.inst].isLoggedIn
          /\ KeysAbsent(localStorage')]_vars

\* C28: round trip through the storage. A login has just returned Success and the next
\* step is the restore of a newly mounted consumer (nothing, so no logout, in between):
\* the restored session is logged in, and its email and accessToken are those of the
\* session the login set.
C28_RoundTrip ==
    [][\A i \in Instances :
          /\ returned.op = "login"
          /\ returned.result.success
          /\ ~hook[i].effectRan
          /\ hook'[i].effectRan
          => LET h == hook[returned.inst] IN
             /\ hook'[i].isLoggedIn
             /\ hook'[i].verifiedEmail = h.verifiedEmail
             /\ hook'[i].accessToken = h.accessToken]_vars

\* C29: the session is shared by its consumers: once logout has been performed through
\* the page shown at a protected path, the guard of that page eventually redirects to
\* /auth.
C29_LogoutReachesGuard ==
    \A s \in Slots :
        (calls[s].op = "logout" /\ location.pathname \in ProtectedPaths)
            ~> (location.pathname = AuthPath)

\* the primary API answered without an error / the call to a backend failed
PrimaryFine(p) == p.kind = "resolve" /\ ~Truthy(p.error)
SecondaryFailed(s) == s.kind = "reject" \/ (s.kind = "resolve" /\ s.error # Null)
NoRows(s) ==
    /\ s.kind = "resolve"
    /\ s.error = Null
    /\ s.data = NullList \/ s.data = List(<<>>)

\* C30: fetchMeetups never throws and queries each backend at most once; the secondary
\* store is queried only if the primary API answered with an error; when the primary
\* answered without an error the result is its data, or the empty list, and the
\* secondary is not contacted; when both fail, or the secondary gives no rows, the
\* result is the empty list.
C30_FetchMeetupsFallback ==
    LET p == meetupsCall.primary
        s == meetupsCall.secondary
    IN /\ ~meetupsCall.thrown
       /\ meetupsCall.primaryQueries <= 1
       /\ meetupsCall.secondaryQueries <= 1
       /\ meetupsCall.secondaryQueries = 1 => p.kind = "resolve" /\ Truthy(p.error)
       /\ meetupsCall.pc = "done" =>
            /\ meetupsCall.result.tag = "array"
            /\ PrimaryFine(p) =>
                 /\ meetupsCall.secondaryQueries = 0
                 /\ meetupsCall.result = IF p.data = NullList THEN List(<<>>) ELSE p.data
            /\ ~PrimaryFine(p) /\ (s.kind = "none" \/ SecondaryFailed(s)) =>
                 meetupsCall.result = List(<<>>)
            /\ NoRows(s) => meetupsCall.result = List(<<>>)

C30_Witness ==
    /\ meetupsCall.pc = "done"
    /\ meetupsCall.invocation = 2
    /\ meetupsCall.primary = ApiResponse(NullList, S_NetworkError)
    /\ meetupsCall.secondaryQueries = 1
    /\ meetupsCall.result.tag = "array"
    /\ Len(meetupsCall.result.items) = 2
    /\ meetupsCall.result.items[2].description = S_NoDescription
    /\ meetupsCall.result.items[2].points = 3

====
